---- MODULE Spec2Model ----
(***************************************************************************)
(* Assignment engine of msmbuilder (src/src/python/assigning.py) together  *)
(* with the HDF5 container functions it uses (src/src/python/msmio.py).    *)
(*                                                                         *)
(* Python indices are kept: trajectories are 0 .. n_trajs-1, frames are    *)
(* 0 .. length-1 and cluster indices are 0 .. num_gens-1.  A matrix is a   *)
(* function [0 .. n-1 -> [0 .. longest-1 -> Int]].  A file is a record     *)
(* with the dictionary of the arrays stored in it.  Names that the module  *)
(* assigning.py uses without importing or binding them (msmio, Serializer, *)
(* warnings, n_trajs, msmio.load) are read as the evident referent.        *)
(***************************************************************************)
EXTENDS Integers, Sequences, FiniteSets, TLC

\* ------------------------------------------------------------------ bounds
MaxTrajs == 3
MaxLen == 2
MaxCheckpoint == 2
MaxChunk == 2
MaxRuns == 2

\* ------------------------------------------------------------------ state
VARIABLES
    traj_lengths,            \* project['TrajLengths'], a function on 0 .. n-1
    TrajFileType,            \* project['TrajFileType']
    generators,              \* the generator set, a sequence of frames
    fs,                      \* the file system: path -> file
    pc,                      \* position of the assignment process
    mode,                    \* "memory", "checkpoint" or "streaming"
    checkpoint,              \* the checkpoint interval of the current run
    chunk_size,              \* the chunk size of the current run
    i,                       \* loop variable of the trajectory loop
    all_assignments,         \* the assignment matrix in memory
    all_distances,           \* the distance matrix in memory
    completed_trajectories,  \* the completion flags in memory
    error,                   \* the exception that ended the run, or "none"
    stream,                  \* the chunks read and the row accumulated so far
    hist                     \* observations of the current run and of the job

\* The script Cluster.py (src/scripts/Cluster.py).
VARIABLES
    argv,                    \* the options given on the command line
    args,                    \* the namespace parser.parse_args returns
    script_pc,               \* position of the script
    disk,                    \* the paths that exist
    trajs,                   \* list_of_trajs
    clusterer                \* the clusterer constructed by cluster()

\* The class Project, in its three implementations.
VARIABLES
    cls,                     \* the implementation in use
    records,                 \* the records a Project is constructed from
    validate,                \* the argument validate
    project_files,           \* what _validate finds on disk
    project,                 \* the attributes of the object, once constructed
    raised                   \* the exception __init__ raised, or "none"

\* The class ProjectBuilder (src/src/python/project/builder.py).
VARIABLES
    builder                  \* the builder, its inputs and its convert() call

\* The HDF5 functions saveh and loadh (src/src/python/io.py, msmio.py).
VARIABLES
    io                       \* the files, and the calls made with their outcome

\* The metric, called on its own.
VARIABLES
    metric_call              \* the arguments of the calls and their results

\* Project.save and Project.load_from (src/src/python/project/project.py).
VARIABLES
    reload                   \* the file written and the project read back

script_vars == <<argv, args, script_pc, disk, trajs, clusterer>>

project_vars == <<cls, records, validate, project_files, project, raised>>

assign_vars == <<traj_lengths, TrajFileType, generators, fs, pc, mode,
                 checkpoint, chunk_size, i, all_assignments, all_distances,
                 completed_trajectories, error, stream, hist>>

builder_vars == <<builder>>

io_vars == <<io>>

metric_vars == <<metric_call>>

reload_vars == <<reload>>

\* The state of the programs added after the script and the class Project.
further_vars == <<builder_vars, io_vars, metric_vars, reload_vars>>

\* The state that a step of ProjectBuilder leaves alone.
beside_builder == <<assign_vars, script_vars, project_vars, io_vars,
                    metric_vars, reload_vars>>

\* The state that a call of saveh or loadh leaves alone.
beside_io == <<assign_vars, script_vars, project_vars, builder_vars,
               metric_vars, reload_vars>>

\* The state that a call of the metric leaves alone.
beside_metric == <<assign_vars, script_vars, project_vars, builder_vars,
                   io_vars, reload_vars>>

\* The state that Project.save and Project.load_from leave alone.
beside_reload == <<assign_vars, script_vars, project_vars, builder_vars,
                   io_vars, metric_vars>>

\* The state of the programs that are not part of the assignment engine.
elsewhere == <<script_vars, project_vars, further_vars>>

vars == <<assign_vars, script_vars, project_vars, further_vars>>

\* None
None == "None"

\* The script has not been started.
ScriptIdle ==
    /\ argv = None
    /\ args = None
    /\ script_pc = "idle"
    /\ disk = {}
    /\ trajs = <<>>
    /\ clusterer = None

\* No Project is being constructed.
ProjectIdle ==
    /\ cls = None
    /\ records = None
    /\ validate = FALSE
    /\ project_files = None
    /\ project = None
    /\ raised = "none"

\* No ProjectBuilder has been made.
BuilderIdle == builder = None

\* No call of saveh or loadh is under way.
IoIdle == io = None

\* The metric has not been called on its own.
MetricIdle == metric_call = None

\* No project has been saved: nothing written, nothing read back.
ReloadIdle ==
    reload = [pc |-> "idle", filename |-> <<>>, written |-> None,
              raised |-> "none", loaded |-> None]

FurtherIdle == BuilderIdle /\ IoIdle /\ MetricIdle /\ ReloadIdle

\* ------------------------------------------------------------------ project
Sentinel == -1

NumTrajs == Cardinality(DOMAIN traj_lengths)

Max(S) == CHOOSE x \in S : \A y \in S : y <= x

\* max(project['TrajLengths'])
Longest == Max({traj_lengths[t] : t \in DOMAIN traj_lengths})

\* The coordinate of frame j of trajectory t (single-atom frames on a line).
Frame(t, j) == (t + 2 * j) % 3

\* project.LoadTraj(t): the frames of trajectory t, in order.
LoadTraj(t) == [k \in 1 .. traj_lengths[t] |-> Frame(t, k - 1)]

\* ------------------------------------------------------------------ metric
\* metric.prepare_trajectory: the prepared form of single-atom frames is the
\* sequence of their coordinates.
prepare_trajectory(traj) == traj

Abs(x) == IF x < 0 THEN -x ELSE x

\* metric.one_to_all(ptraj, pgens, j): distance from frame j of ptraj to every
\* frame of pgens.
one_to_all(ptraj, pgens, j) ==
    [g \in 1 .. Len(pgens) |-> Abs(ptraj[j + 1] - pgens[g])]

Min(S) == CHOOSE x \in S : \A y \in S : x <= y

\* A plausible slip: the last position of the minimum is taken.
ArgMinLast(d) ==
    (CHOOSE k \in 1 .. Len(d) :
        /\ d[k] = Min({d[m] : m \in 1 .. Len(d)})
        /\ \A m \in (k + 1) .. Len(d) : d[m] > d[k]) - 1

\* np.argmin(d): the first position of the minimum, counted from zero.
ArgMin(d) ==
    (CHOOSE k \in 1 .. Len(d) :
        /\ d[k] = Min({d[m] : m \in 1 .. Len(d)})
        /\ \A m \in 1 .. (k - 1) : d[m] > d[k]) - 1

\* A plausible slip: the index stored is counted from one.
NearestGeneratorOneBased(ptraj, pgens, j) ==
    LET d == one_to_all(ptraj, pgens, j)
        ind == ArgMin(d)
    IN  [ind |-> ind + 1, dist |-> d[ind + 1]]

\* The inner loop body shared by the three modes: the minimizing generator
\* index of frame j and the distance to it.
NearestGenerator(ptraj, pgens, j) ==
    LET d == one_to_all(ptraj, pgens, j)
        ind == ArgMin(d)
    IN  [ind |-> ind, dist |-> d[ind + 1]]

\* assignments / distances of a whole prepared trajectory (lines 114-121).
AssignFrames(ptraj, pgens) ==
    [k \in 1 .. Len(ptraj) |-> NearestGenerator(ptraj, pgens, k - 1)]

\* Trajectory.EnumChunksFromLHDF(filename, ChunkSize): consecutive slices of
\* at most ChunkSize frames.
RECURSIVE EnumChunks(_, _)
EnumChunks(traj, size) ==
    IF Len(traj) = 0 THEN <<>>
    ELSE IF Len(traj) <= size THEN <<traj>>
    ELSE <<SubSeq(traj, 1, size)>> \o
         EnumChunks(SubSeq(traj, size + 1, Len(traj)), size)

\* A plausible slip: the lists are emptied inside the chunk loop.
ExtendRowReset(row, chunk_row) == chunk_row

\* distances.extend(chunk_distances); assignments.extend(chunk_assignments)
ExtendRow(row, chunk_row) == row \o chunk_row

\* One pass of the chunk loop (lines 175-185): the chunk is prepared and
\* assigned on its own, and its results are appended to the row.
AssignChunk(row, chunk_trj, pgens) ==
    ExtendRow(row, AssignFrames(prepare_trajectory(chunk_trj), pgens))

\* The chunk loop of streaming mode from the k-th chunk on.
RECURSIVE AssignChunks(_, _, _, _)
AssignChunks(row, chunks, k, pgens) ==
    IF k > Len(chunks) THEN row
    ELSE AssignChunks(AssignChunk(row, chunks[k], pgens), chunks, k + 1, pgens)

\* ------------------------------------------------------------------ matrices
\* A plausible slip: the matrices are created with zeros.
Zeros(n, longest) == [t \in 0 .. n - 1 |-> [j \in 0 .. longest - 1 |-> 0]]

\* -1 * np.ones((n, longest))
MinusOnes(n, longest) == [t \in 0 .. n - 1 |-> [j \in 0 .. longest - 1 |-> Sentinel]]

NoFlags(n) == [t \in 0 .. n - 1 |-> FALSE]

\* A plausible slip: the slice stops one entry short.
SetRowShort(matrix, t, values) ==
    [matrix EXCEPT ![t] =
        [j \in DOMAIN matrix[t] |->
            IF j < Len(values) - 1 THEN values[j + 1] ELSE matrix[t][j]]]

\* matrix[t, 0:len(values)] = values
SetRow(matrix, t, values) ==
    [matrix EXCEPT ![t] =
        [j \in DOMAIN matrix[t] |->
            IF j < Len(values) THEN values[j + 1] ELSE matrix[t][j]]]

\* A plausible slip: the flag vector rebuilt with only the current entry set.
MarkOnlyCompleted(flags, t) == [u \in DOMAIN flags |-> u = t]

\* completed_trajectories[t] = True
MarkCompleted(flags, t) == [flags EXCEPT ![t] = TRUE]

\* A plausible slip: the skip test dropped.
NeverSkip(flags, t) == FALSE

\* if completed_trajectories[t]: continue
SkipTrajectory(flags, t) == flags[t]

\* A plausible slip: the loop steps by two and wraps around.
NextTrajectoryStride(t) == (t + 2) % Cardinality(DOMAIN traj_lengths)

\* for i in xrange(n_trajs): the index after t.
NextTrajectory(t) == t + 1

\* ((t+1) % checkpoint == 0) or (t+1 == project['NumTrajs'])
ShouldCheckpoint(t, interval, n) == ((t + 1) % interval = 0) \/ (t + 1 = n)

\* ------------------------------------------------------------------ files
outputdir == <<"outputdir">>

\* os.path.join(outputdir, 'Assignments.h5')
assignments_fn == outputdir \o <<"Assignments", "h5">>

\* os.path.join(outputdir, 'Assignments.h5.distances')
distances_fn == outputdir \o <<"Assignments", "h5", "distances">>

\* The temporary location a checkpoint is written to before the rename.
TmpName(path) == Append(path, "tmp")

assignments_tmp == TmpName(assignments_fn)

distances_tmp == TmpName(distances_fn)

\* msmio.saveh: the '.hdf' extension is appended when it is not there.
HdfName(file) == IF file[Len(file)] = "hdf" THEN file ELSE Append(file, "hdf")

Paths == {outputdir, assignments_fn, distances_fn, assignments_tmp,
          distances_tmp, HdfName(assignments_fn), HdfName(distances_fn)}

NoArrays == [name \in {} |-> 0]

NoFile == [kind |-> "none", partial |-> FALSE, arrays |-> NoArrays]

Directory == [kind |-> "dir", partial |-> FALSE, arrays |-> NoArrays]

\* A file that tables.openFile(..., mode='a') has just created.
EmptyFile == [kind |-> "file", partial |-> FALSE, arrays |-> NoArrays]

\* A file whose writing has begun and has not finished.
PartialFile == [kind |-> "file", partial |-> TRUE, arrays |-> NoArrays]

CompleteFile(arrays) == [kind |-> "file", partial |-> FALSE, arrays |-> arrays]

\* os.path.exists(path)
Exists(files, path) == files[path].kind # "none"

\* tables.openFile(path, mode='a'): an absent file is created empty.
OpenAppend(files, path) ==
    IF Exists(files, path) THEN files ELSE [files EXCEPT ![path] = EmptyFile]

\* msmio.saveh(file, **namedict) for a file given by name: the outcome is the
\* file system after the call and the exception raised, if any.
saveh(files, file, namedict) ==
    LET target == HdfName(file)
        opened == OpenAppend(files, target)
        current_nodes == DOMAIN opened[target].arrays
    IN  IF opened[target].partial
        THEN [fs |-> files, error |-> "HDF5ExtError"]
        ELSE IF \E key \in DOMAIN namedict : key \in current_nodes
        THEN [fs |-> opened, error |-> "IOError: array already exists"]
        ELSE [fs |-> [opened EXCEPT ![target].arrays = namedict @@ @],
              error |-> "none"]

\* save_container(filename, dtype)
save_container(files, filename, n, longest) ==
    saveh(files, filename,
          [Data |-> MinusOnes(n, longest), completed_trajs |-> NoFlags(n)])

\* check_container(filename): the exception raised, or "none".  The message
\* of the ValueError reads ondisk['completed_trajs'] before it is raised.
check_container(files, filename, n) ==
    LET ondisk == files[filename].arrays
    IN  IF files[filename].partial THEN "HDF5ExtError"
        ELSE IF "hashes" \notin DOMAIN ondisk THEN "KeyError: hashes"
        ELSE IF n # Len(ondisk.hashes)
        THEN IF "completed_trajs" \in DOMAIN ondisk
             THEN "ValueError: ntrajs"
             ELSE "KeyError: completed_trajs"
        ELSE "none"

\* A plausible slip: a missing container is created instead of reported.
ContainerBranchRepair(a_exists, d_exists) ==
    IF a_exists /\ d_exists THEN "check" ELSE "save"

\* The three-way branch of _setup_containers on the existence of the files.
ContainerBranch(a_exists, d_exists) ==
    IF (~a_exists) /\ (~d_exists) THEN "save"
    ELSE IF a_exists /\ d_exists THEN "check"
    ELSE "raise"

\* _setup_containers(outputdir, project): the file system after the call, the
\* exception raised ("none" when it returns) and whether fresh containers
\* were made.
_setup_containers(files, n, longest) ==
    LET made == IF Exists(files, outputdir) THEN files
                ELSE [files EXCEPT ![outputdir] = Directory]
        branch == ContainerBranch(Exists(made, assignments_fn),
                                  Exists(made, distances_fn))
        s1 == save_container(made, assignments_fn, n, longest)
        s2 == save_container(s1.fs, distances_fn, n, longest)
        c1 == check_container(made, assignments_fn, n)
        c2 == check_container(made, distances_fn, n)
        opened(f) == OpenAppend(OpenAppend(f, assignments_fn), distances_fn)
    IN  CASE branch = "save" ->
                IF s1.error # "none"
                THEN [fs |-> s1.fs, error |-> s1.error, fresh |-> TRUE]
                ELSE IF s2.error # "none"
                THEN [fs |-> s2.fs, error |-> s2.error, fresh |-> TRUE]
                ELSE [fs |-> opened(s2.fs), error |-> "none", fresh |-> TRUE]
          [] branch = "check" ->
                IF c1 # "none"
                THEN [fs |-> made, error |-> c1, fresh |-> FALSE]
                ELSE IF c2 # "none"
                THEN [fs |-> made, error |-> c2, fresh |-> FALSE]
                ELSE [fs |-> opened(made), error |-> "none", fresh |-> FALSE]
          [] OTHER ->
                [fs |-> made, error |-> "ValueError: missing container",
                 fresh |-> FALSE]

\* The completion flags stored in a container, under either of the two names
\* the program writes them with.
StoredFlags(file, n) ==
    IF "completed_trajectories" \in DOMAIN file.arrays
    THEN file.arrays.completed_trajectories
    ELSE IF "completed_trajs" \in DOMAIN file.arrays
    THEN file.arrays.completed_trajs
    ELSE NoFlags(n)

StoredData(file, n, longest) ==
    IF "Data" \in DOMAIN file.arrays THEN file.arrays.Data
    ELSE MinusOnes(n, longest)

\* What a run works on after the startup: all-sentinel matrices and no flag
\* for fresh containers, the content of the canonical files otherwise.
LoadContainers(files, n, longest, fresh) ==
    IF fresh
    THEN [assignments |-> MinusOnes(n, longest),
          distances |-> MinusOnes(n, longest),
          completed |-> NoFlags(n)]
    ELSE [assignments |-> StoredData(files[assignments_fn], n, longest),
          distances |-> StoredData(files[distances_fn], n, longest),
          completed |-> StoredFlags(files[assignments_fn], n)]

\* Serializer({'Data': all_assignments, 'completed_trajectories': ...})
AssignmentsCheckpoint(assignments, completed) ==
    [Data |-> assignments, completed_trajectories |-> completed]

\* Serializer({'Data': all_distances})
DistancesCheckpoint(distances) == [Data |-> distances]

\* A plausible slip: the checkpoint is written over the canonical file.
SaveTargetCanonical(tmp, canonical) == canonical

\* The file a checkpoint is written to: SaveToHDF(assignments_tmp).
SaveTarget(tmp, canonical) == tmp

\* os.rename(src, dst)
Rename(files, src, dst) == [files EXCEPT ![dst] = files[src], ![src] = NoFile]

\* ------------------------------------------------------------------ rows
\* The row of trajectory t as the checkpointed loop computes it (113-121).
CheckpointRow(t) ==
    AssignFrames(prepare_trajectory(LoadTraj(t)), prepare_trajectory(generators))

\* The row of trajectory t as the streaming loop accumulates it (169-185).
StreamingRow(t, size) ==
    AssignChunks(<<>>, EnumChunks(LoadTraj(t), size), 1,
                 prepare_trajectory(generators))

\* The row of trajectory t as assign_in_memory computes it (lines 79-84):
\* the index is stored first and the distance is read back through it.
MemoryRow(t) ==
    LET traj == LoadTraj(t)
        ptraj == prepare_trajectory(traj)
        pgens == prepare_trajectory(generators)
    IN  [k \in 1 .. Len(traj) |->
            LET d == one_to_all(ptraj, pgens, k - 1)
                assigned == ArgMin(d)
            IN  [ind |-> assigned, dist |-> d[assigned + 1]]]

Indices(row) == [k \in 1 .. Len(row) |-> row[k].ind]

Dists(row) == [k \in 1 .. Len(row) |-> row[k].dist]

\* assign_in_memory as a function of the project and the generators.
InMemoryResult ==
    [assignments |->
        [t \in 0 .. NumTrajs - 1 |->
            SetRow(MinusOnes(NumTrajs, Longest), t, Indices(MemoryRow(t)))[t]],
     distances |->
        [t \in 0 .. NumTrajs - 1 |->
            SetRow(MinusOnes(NumTrajs, Longest), t, Dists(MemoryRow(t)))[t]]]

\* ------------------------------------------------------------------ inputs
\* Projects of 1 .. MaxTrajs trajectories: all of one length, or of lengths
\* that cycle through 1 .. MaxLen from some offset.
Lengths ==
    UNION {{[t \in 0 .. n - 1 |-> len] : len \in 1 .. MaxLen}
           \cup {[t \in 0 .. n - 1 |-> 1 + ((t + k) % MaxLen)] :
                    k \in 0 .. MaxLen - 1} : n \in 1 .. MaxTrajs}

\* A plausible slip: every file type is taken to support chunked reads.
ChunkedFileTypesAny == {".lh5", ".h5", ".xtc"}

\* The generator sets and the trajectory file types of the jobs considered.
Jobs == {[gens |-> <<0, 2>>, type |-> ".lh5"],
         [gens |-> <<1, 1, 2>>, type |-> ".h5"],
         [gens |-> <<2, 0>>, type |-> ".xtc"]}

ChunkedFileTypes == {".lh5", ".h5"}

\* The matrices an earlier job on this project left behind when the
\* trajectories in done were complete.
EarlierMatrix(done, which) ==
    [t \in 0 .. NumTrajs - 1 |->
        IF t \in done THEN InMemoryResult[which][t]
        ELSE MinusOnes(NumTrajs, Longest)[t]]

EarlierFlags(done) == [t \in 0 .. NumTrajs - 1 |-> t \in done]

\* A pair of containers on disk at the start, in the layout check_container
\* reads, left by a job on m trajectories.
EarlierPair(m, done) ==
    LET a == IF m = NumTrajs THEN EarlierMatrix(done, "assignments")
             ELSE MinusOnes(m, Longest)
        d == IF m = NumTrajs THEN EarlierMatrix(done, "distances")
             ELSE MinusOnes(m, Longest)
        c == IF m = NumTrajs THEN EarlierFlags(done) ELSE NoFlags(m)
        h == [k \in 1 .. m |-> 0]
    IN  [a |-> CompleteFile([Data |-> a, completed_trajs |-> c, hashes |-> h]),
         d |-> CompleteFile([Data |-> d, completed_trajs |-> c, hashes |-> h])]

NoFiles == [p \in Paths |-> NoFile]

InitialDisks ==
    {NoFiles, [NoFiles EXCEPT ![outputdir] = Directory]}
    \cup {[NoFiles EXCEPT ![outputdir] = Directory,
                          ![assignments_fn] = EarlierPair(NumTrajs, {}).a],
          [NoFiles EXCEPT ![outputdir] = Directory,
                          ![distances_fn] = EarlierPair(NumTrajs, {}).d]}
    \cup {[NoFiles EXCEPT ![outputdir] = Directory,
                          ![assignments_fn] = EarlierPair(NumTrajs, done).a,
                          ![distances_fn] = EarlierPair(NumTrajs, done).d] :
            done \in SUBSET (0 .. NumTrajs - 1)}
    \cup {[NoFiles EXCEPT ![outputdir] = Directory,
                          ![assignments_fn] = EarlierPair(m, {}).a,
                          ![distances_fn] = EarlierPair(m, {}).d] :
            m \in (1 .. MaxTrajs) \ {NumTrajs}}

\* ------------------------------------------------------------------ process
NoMatrix == MinusOnes(0, 0)

\* distances = []; assignments = [] (lines 169-170)
NoStream == [chunks |-> 0, row |-> <<>>]

NoHist ==
    [runs |-> 0, requested |-> "none", warned |-> FALSE, fresh |-> FALSE,
     start_completed |-> NoFlags(0), start_assignments |-> NoMatrix,
     start_distances |-> NoMatrix, loaded |-> {}, chunked |-> {},
     order |-> <<>>, committed |-> FALSE, killed_after_commit |-> FALSE,
     resumed |-> FALSE, last_commit |-> NoFlags(0), interrupted |-> FALSE,
     began_fresh |-> FALSE]

Stopped == {"idle", "killed", "failed", "returned"}

CommitSteps == {"save_assignments", "saving_assignments", "save_distances",
                "saving_distances", "rename_assignments", "rename_distances"}

Running == {"memory_loop", "loop"} \cup CommitSteps

Init ==
    /\ traj_lengths \in Lengths
    /\ \E job \in Jobs : generators = job.gens /\ TrajFileType = job.type
    /\ fs \in InitialDisks
    /\ pc = "idle"
    /\ mode = "none"
    /\ checkpoint = 0
    /\ chunk_size = 0
    /\ i = 0
    /\ all_assignments = NoMatrix
    /\ all_distances = NoMatrix
    /\ completed_trajectories = NoFlags(0)
    /\ error = "none"
    /\ stream = NoStream
    /\ hist = NoHist
    /\ ScriptIdle
    /\ ProjectIdle
    /\ FurtherIdle

\* The observations reset at the start of a run.
NewRun(requested, warned, fresh, loadedc) ==
    [hist EXCEPT !.runs = @ + 1, !.requested = requested, !.warned = warned,
                 !.fresh = fresh, !.start_completed = loadedc.completed,
                 !.start_assignments = loadedc.assignments,
                 !.start_distances = loadedc.distances,
                 !.loaded = {}, !.chunked = {}, !.order = <<>>,
                 !.resumed = hist.killed_after_commit,
                 !.began_fresh = @ \/ fresh]

\* assign_in_memory, lines 72-76.
StartInMemory ==
    /\ pc \in Stopped
    /\ hist.runs < MaxRuns
    /\ pc' = "memory_loop"
    /\ mode' = "memory"
    /\ checkpoint' = 0
    /\ chunk_size' = 0
    /\ i' = 0
    /\ all_assignments' = MinusOnes(NumTrajs, Longest)
    /\ all_distances' = MinusOnes(NumTrajs, Longest)
    /\ completed_trajectories' = NoFlags(0)
    /\ error' = "none"
    /\ hist' = NewRun("memory", FALSE, FALSE,
                      [completed |-> NoFlags(0), assignments |-> NoMatrix,
                       distances |-> NoMatrix])
    /\ UNCHANGED elsewhere
    /\ UNCHANGED <<stream, traj_lengths, TrajFileType, generators, fs>>

\* assign_in_memory, one pass of the loop over trajectories (lines 78-84).
MemoryStep ==
    /\ pc = "memory_loop"
    /\ i < NumTrajs
    /\ all_assignments' = SetRow(all_assignments, i, Indices(MemoryRow(i)))
    /\ all_distances' = SetRow(all_distances, i, Dists(MemoryRow(i)))
    /\ i' = NextTrajectory(i)
    /\ hist' = [hist EXCEPT !.loaded = @ \cup {i}, !.order = Append(@, i)]
    /\ UNCHANGED elsewhere
    /\ UNCHANGED <<stream, traj_lengths, TrajFileType, generators, fs, pc, mode,
                   checkpoint, chunk_size, completed_trajectories, error>>

\* The startup of a checkpointed or streaming run (lines 98-105, 154-161).
Begin(requested, effective, warned, interval, size) ==
    LET s == _setup_containers(fs, NumTrajs, Longest)
        c == LoadContainers(s.fs, NumTrajs, Longest, s.fresh)
        none == [completed |-> NoFlags(0), assignments |-> NoMatrix,
                 distances |-> NoMatrix]
    IN  /\ pc \in Stopped
        /\ hist.runs < MaxRuns
        /\ fs' = s.fs
        /\ mode' = effective
        /\ i' = 0
        /\ error' = s.error
        /\ IF s.error = "none"
           THEN /\ pc' = "loop"
                /\ checkpoint' = interval
                /\ chunk_size' = size
                /\ all_assignments' = c.assignments
                /\ all_distances' = c.distances
                /\ completed_trajectories' = c.completed
                /\ hist' = NewRun(requested, warned, s.fresh, c)
           ELSE /\ pc' = "failed"
                /\ checkpoint' = 0
                /\ chunk_size' = 0
                /\ all_assignments' = NoMatrix
                /\ all_distances' = NoMatrix
                /\ completed_trajectories' = NoFlags(0)
                /\ hist' = NewRun(requested, warned, s.fresh, none)
        /\ UNCHANGED elsewhere
        /\ UNCHANGED <<stream, traj_lengths, TrajFileType, generators>>

\* assign_with_checkpoint(..., checkpoint=interval)
StartCheckpointed ==
    \E interval \in 1 .. MaxCheckpoint :
        Begin("checkpoint", "checkpoint", FALSE, interval, 0)

\* streaming_assign_with_checkpoint(..., checkpoint=interval, chunk_size=size)
\* on a project whose file type supports chunked reads.
StartStreaming ==
    \E interval \in 1 .. MaxCheckpoint, size \in 1 .. MaxChunk :
        /\ TrajFileType \in ChunkedFileTypes
        /\ Begin("streaming", "streaming", FALSE, interval, size)

\* streaming_assign_with_checkpoint on any other file type: a warning, and
\* assign_with_checkpoint with the same arguments (lines 150-152).
StartStreamingFallback ==
    \E interval \in 1 .. MaxCheckpoint, size \in 1 .. MaxChunk :
        /\ TrajFileType \notin ChunkedFileTypes
        /\ Begin("streaming", "checkpoint", TRUE, interval, 0)

\* if completed_trajectories[i]: continue (lines 108-110, 164-166).
SkipCompleted ==
    /\ pc = "loop"
    /\ i < NumTrajs
    /\ SkipTrajectory(completed_trajectories, i)
    /\ i' = NextTrajectory(i)
    /\ UNCHANGED elsewhere
    /\ UNCHANGED <<stream, traj_lengths, TrajFileType, generators, fs, pc, mode,
                   checkpoint, chunk_size, all_assignments, all_distances,
                   completed_trajectories, error, hist>>

\* The rest of one pass of the loop, up to the checkpoint test.
Assign(row, whole) ==
    /\ pc = "loop"
    /\ i < NumTrajs
    /\ ~SkipTrajectory(completed_trajectories, i)
    /\ all_distances' = SetRow(all_distances, i, Dists(row))
    /\ all_assignments' = SetRow(all_assignments, i, Indices(row))
    /\ completed_trajectories' = MarkCompleted(completed_trajectories, i)
    /\ hist' = [hist EXCEPT !.loaded = IF whole THEN @ \cup {i} ELSE @,
                            !.chunked = IF whole THEN @ ELSE @ \cup {i},
                            !.order = Append(@, i)]
    /\ IF ShouldCheckpoint(i, checkpoint, NumTrajs)
       THEN pc' = "save_assignments" /\ i' = i
       ELSE pc' = "loop" /\ i' = NextTrajectory(i)
    /\ UNCHANGED elsewhere
    /\ UNCHANGED <<traj_lengths, TrajFileType, generators, fs, mode,
                   checkpoint, chunk_size, error>>

\* assign_with_checkpoint, lines 111-127.
AssignTrajectory ==
    /\ mode = "checkpoint"
    /\ Assign(CheckpointRow(i), TRUE)
    /\ UNCHANGED stream

\* The chunks of trajectory t as the run reads them (line 172).
ChunksOf(t) == EnumChunks(LoadTraj(t), chunk_size)

\* streaming_assign_with_checkpoint, one pass of the chunk loop
\* (lines 172-185).
StreamChunk ==
    /\ pc = "loop"
    /\ mode = "streaming"
    /\ i < NumTrajs
    /\ ~SkipTrajectory(completed_trajectories, i)
    /\ stream.chunks < Len(ChunksOf(i))
    /\ stream' = [chunks |-> stream.chunks + 1,
                  row |-> AssignChunk(stream.row,
                                      ChunksOf(i)[stream.chunks + 1],
                                      prepare_trajectory(generators))]
    /\ hist' = [hist EXCEPT !.chunked = @ \cup {i}]
    /\ UNCHANGED elsewhere
    /\ UNCHANGED <<traj_lengths, TrajFileType, generators, fs, pc, mode,
                   checkpoint, chunk_size, i, all_assignments, all_distances,
                   completed_trajectories, error>>

\* streaming_assign_with_checkpoint, after the chunk loop (lines 187-191).
StreamTrajectory ==
    /\ pc = "loop"
    /\ mode = "streaming"
    /\ i < NumTrajs
    /\ stream.chunks = Len(ChunksOf(i))
    /\ Assign(stream.row, FALSE)
    /\ stream' = NoStream

\* ------------------------------------------------------------------ commit
Commit(now, next) ==
    /\ pc = now
    /\ pc' = next
    /\ UNCHANGED elsewhere
    /\ UNCHANGED <<stream, traj_lengths, TrajFileType, generators, mode, checkpoint,
                   chunk_size, all_assignments, all_distances,
                   completed_trajectories, error>>

\* Serializer({...}).SaveToHDF(assignments_tmp) begins: the file is created.
SaveAssignments ==
    /\ Commit("save_assignments", "saving_assignments")
    /\ fs' = [fs EXCEPT ![SaveTarget(assignments_tmp, assignments_fn)] =
                            PartialFile]
    /\ UNCHANGED <<i, hist>>

\* Serializer({...}).SaveToHDF(assignments_tmp) ends: the arrays are stored.
FinishAssignments ==
    /\ Commit("saving_assignments", "save_distances")
    /\ fs' = [fs EXCEPT ![SaveTarget(assignments_tmp, assignments_fn)] =
                CompleteFile(AssignmentsCheckpoint(all_assignments,
                                                   completed_trajectories))]
    /\ UNCHANGED <<i, hist>>

\* Serializer({'Data': all_distances}).SaveToHDF(distances_tmp) begins.
SaveDistances ==
    /\ Commit("save_distances", "saving_distances")
    /\ fs' = [fs EXCEPT ![SaveTarget(distances_tmp, distances_fn)] =
                            PartialFile]
    /\ UNCHANGED <<i, hist>>

\* Serializer({'Data': all_distances}).SaveToHDF(distances_tmp) ends.
FinishDistances ==
    /\ Commit("saving_distances", "rename_assignments")
    /\ fs' = [fs EXCEPT ![SaveTarget(distances_tmp, distances_fn)] =
                CompleteFile(DistancesCheckpoint(all_distances))]
    /\ UNCHANGED <<i, hist>>

\* os.rename of a source that does not exist raises OSError.
RenameFails(now) ==
    /\ pc = now
    /\ pc' = "failed"
    /\ error' = "OSError"
    /\ UNCHANGED elsewhere
    /\ UNCHANGED <<stream, traj_lengths, TrajFileType, generators, fs, mode,
                   checkpoint, chunk_size, i, all_assignments, all_distances,
                   completed_trajectories, hist>>

\* os.rename(assignments_tmp, assignments_path)
RenameAssignments ==
    IF Exists(fs, assignments_tmp)
    THEN /\ Commit("rename_assignments", "rename_distances")
         /\ fs' = Rename(fs, assignments_tmp, assignments_fn)
         /\ hist' = [hist EXCEPT !.last_commit = completed_trajectories]
         /\ UNCHANGED i
    ELSE RenameFails("rename_assignments")

\* os.rename(distances_tmp, distances_path), and on to the next trajectory.
RenameDistances ==
    IF Exists(fs, distances_tmp)
    THEN /\ Commit("rename_distances", "loop")
         /\ fs' = Rename(fs, distances_tmp, distances_fn)
         /\ i' = NextTrajectory(i)
         /\ hist' = [hist EXCEPT !.committed = TRUE]
    ELSE RenameFails("rename_distances")

\* return all_assignments, all_distances (lines 135, 199).
Return ==
    /\ pc = "loop"
    /\ i = NumTrajs
    /\ pc' = "returned"
    /\ UNCHANGED elsewhere
    /\ UNCHANGED <<stream, traj_lengths, TrajFileType, generators, fs, mode,
                   checkpoint, chunk_size, i, all_assignments, all_distances,
                   completed_trajectories, error, hist>>

\* return assignments, distances (line 86).
MemoryReturn ==
    /\ pc = "memory_loop"
    /\ i = NumTrajs
    /\ pc' = "returned"
    /\ UNCHANGED elsewhere
    /\ UNCHANGED <<stream, traj_lengths, TrajFileType, generators, fs, mode,
                   checkpoint, chunk_size, i, all_assignments, all_distances,
                   completed_trajectories, error, hist>>

\* The process is killed: what it held in memory is gone, the files stay.
Kill ==
    /\ pc \in Running
    /\ pc' = "killed"
    /\ all_assignments' = NoMatrix
    /\ all_distances' = NoMatrix
    /\ completed_trajectories' = NoFlags(0)
    /\ i' = 0
    /\ hist' = [hist EXCEPT !.killed_after_commit = hist.committed,
                            !.interrupted = @ \/ (mode # "memory"),
                            !.start_completed = NoFlags(0),
                            !.start_assignments = NoMatrix,
                            !.start_distances = NoMatrix,
                            !.loaded = {}, !.chunked = {}, !.order = <<>>,
                            !.requested = "none", !.warned = FALSE,
                            !.fresh = FALSE]
    /\ mode' = "none"
    /\ checkpoint' = 0
    /\ chunk_size' = 0
    /\ stream' = NoStream
    /\ UNCHANGED elsewhere
    /\ UNCHANGED <<traj_lengths, TrajFileType, generators, fs, error>>

Next ==
    \/ StartInMemory
    \/ MemoryStep
    \/ MemoryReturn
    \/ StartCheckpointed
    \/ StartStreaming
    \/ StartStreamingFallback
    \/ SkipCompleted
    \/ AssignTrajectory
    \/ StreamChunk
    \/ StreamTrajectory
    \/ SaveAssignments
    \/ FinishAssignments
    \/ SaveDistances
    \/ FinishDistances
    \/ RenameAssignments
    \/ RenameDistances
    \/ Return
    \/ Kill

Spec == Init /\ [][Next]_vars

\* ------------------------------------------------------------------ script
\* No assignment job runs while the script or a Project is looked at.
AssignIdle ==
    /\ traj_lengths = [t \in 0 .. 0 |-> 1]
    /\ TrajFileType = ".lh5"
    /\ generators = <<0>>
    /\ fs = NoFiles
    /\ pc = "idle"
    /\ mode = "none"
    /\ checkpoint = 0
    /\ chunk_size = 0
    /\ i = 0
    /\ all_assignments = NoMatrix
    /\ all_distances = NoMatrix
    /\ completed_trajectories = NoFlags(0)
    /\ error = "none"
    /\ stream = NoStream
    /\ hist = NoHist

\* The subparsers of lines 58-110.
Algorithms == {"kcenters", "hybrid", "clarans", "sclarans", "hierarchical"}

\* The options of the command lines considered: -k, -d, -n and -s.
Options == {"k", "d", "n", "s"}

\* The options each subparser declares, among those considered (-s is the
\* seed of kcenters and the shrink multiple of sclarans).
Declared(alg) ==
    CASE alg = "kcenters" -> {"k", "d", "s"}
      [] alg = "hybrid" -> {"k", "d"}
      [] alg = "clarans" -> {"k"}
      [] alg = "sclarans" -> {"k", "n", "s"}
      [] OTHER -> {}

\* The options declared with required=True (lines 92-97).
Required(alg) == IF alg = "sclarans" THEN {"k", "n", "s"} ELSE {}

\* The options of the group made by add_mutually_exclusive_group (lines 60-64
\* and 72-76).
ExclusiveGroup(alg) == IF alg \in {"kcenters", "hybrid"} THEN {"k", "d"} ELSE {}

\* A plausible slip: the group is made without required=True.
MutuallyExclusiveGroupOptional(required, supplied) ==
    IF Cardinality(supplied) > 1 THEN "not allowed with argument" ELSE "none"

\* argparse on a mutually exclusive group: two of its options together are
\* an error, and so is none of them when the group is required.
MutuallyExclusiveGroup(required, supplied) ==
    IF Cardinality(supplied) > 1 THEN "not allowed with argument"
    ELSE IF required /\ supplied = {} THEN "one of the arguments is required"
    ELSE "none"

\* The options given a value on the command line.
Supplied(line) == {o \in Options : line[o] # None}

\* parser.parse_args() on a command line: the error argparse exits with, or
\* "none".
ParseError(line) ==
    LET alg == line.alg
        group == ExclusiveGroup(alg)
    IN  IF ~(Supplied(line) \subseteq Declared(alg))
        THEN "unrecognized arguments"
        ELSE IF ~(Required(alg) \subseteq Supplied(line))
        THEN "argument is required"
        ELSE IF group # {}
        THEN MutuallyExclusiveGroup(TRUE, Supplied(line) \cap group)
        ELSE "none"

\* The namespace of an accepted command line: an option that is not given
\* has its default, None for -k and -d and 0 for the seed of kcenters.
Namespace(line) ==
    [alg |-> line.alg,
     stride |-> line.stride,
     num_clusters |-> line.k,
     distance_cutoff |-> line.d,
     num_samples |-> line.n,
     seed |-> IF line.alg = "kcenters" /\ line.s = None THEN "0" ELSE line.s,
     generators |-> "Data/Gens.lh5",
     assignments |-> "Data/Assignments.h5",
     distances |-> "Data/Assignments.h5.distances",
     hierarchical_save_zmatrix |-> "Data/Zmatrix.h5"]

\* The paths check_paths looks at (lines 159-166).
CheckedPaths(a) ==
    IF a.alg = "hierarchical" THEN {a.hierarchical_save_zmatrix}
    ELSE {a.generators}
         \cup (IF a.stride = 1 THEN {a.assignments, a.distances} ELSE {})

\* msmio.saveh on a file name: the name the file is written under.
SavedAs(path) == path \o ".hdf"

\* The paths main writes after the clustering (lines 184-195) and cluster
\* writes for hierarchical (line 151).
WrittenPaths(a) ==
    IF a.alg = "hierarchical" THEN {a.hierarchical_save_zmatrix}
    ELSE {a.generators}
         \cup (IF a.stride = 1
               THEN {SavedAs(a.assignments), SavedAs(a.distances)} ELSE {})

\* cluster(metric, trajs, args): the constructor called and its arguments.
Clusterer(a, loaded) ==
    CASE a.alg = "kcenters" ->
            [class |-> "KCenters", k |-> a.num_clusters,
             distance_cutoff |-> a.distance_cutoff, trajs |-> loaded]
      [] a.alg = "hybrid" ->
            [class |-> "HybridKMedoids", k |-> a.num_clusters,
             distance_cutoff |-> a.distance_cutoff, trajs |-> loaded]
      [] a.alg = "clarans" ->
            [class |-> "Clarans", k |-> a.num_clusters,
             distance_cutoff |-> None, trajs |-> loaded]
      [] a.alg = "sclarans" ->
            [class |-> "SubsampledClarans", k |-> a.num_clusters,
             distance_cutoff |-> None, trajs |-> loaded]
      [] OTHER ->
            [class |-> "Hierarchical", k |-> None,
             distance_cutoff |-> None, trajs |-> loaded]

\* The command lines considered; the value of an option is kept as the word
\* given on the command line.
CommandLines ==
    [alg : Algorithms, stride : {1, 2}, k : {None, "1", "2"},
     d : {None, "0.5"}, n : {None, "1"}, s : {None, "1"}]

OutputPaths == {"Data/Gens.lh5", "Data/Assignments.h5",
                "Data/Assignments.h5.distances", "Data/Zmatrix.h5"}

\* The paths that can exist when the script is started: the output paths
\* and the names msmio.saveh writes the assignments and distances under.
ExistingPaths ==
    OutputPaths \cup {SavedAs("Data/Assignments.h5"),
                      SavedAs("Data/Assignments.h5.distances")}

ClusterInit ==
    /\ AssignIdle
    /\ ProjectIdle
    /\ FurtherIdle
    /\ argv \in CommandLines
    /\ args = None
    /\ script_pc = "shell"
    /\ disk \in SUBSET ExistingPaths
    /\ trajs = <<>>
    /\ clusterer = None

\* args, metric = parser.parse_args() (line 198): argparse exits on an error.
parse_args ==
    /\ script_pc = "shell"
    /\ IF ParseError(argv) = "none"
       THEN /\ args' = Namespace(argv)
            /\ script_pc' = "main"
       ELSE /\ args' = None
            /\ script_pc' = "rejected"
    /\ UNCHANGED <<argv, disk, trajs, clusterer>>
    /\ UNCHANGED <<assign_vars, project_vars, further_vars>>

\* check_paths(args) (line 170): die_if_path_exists ends the script.
check_paths ==
    /\ script_pc = "main"
    /\ script_pc' = IF CheckedPaths(args) \cap disk # {} THEN "died"
                    ELSE "checked"
    /\ UNCHANGED <<argv, args, disk, trajs, clusterer>>
    /\ UNCHANGED <<assign_vars, project_vars, further_vars>>

\* sys.exit(1) for sclarans with a stride (lines 172-177).
sclarans_stride_exit ==
    /\ script_pc = "checked"
    /\ args.alg = "sclarans" /\ args.stride # 1
    /\ script_pc' = "exited"
    /\ UNCHANGED <<argv, args, disk, trajs, clusterer>>
    /\ UNCHANGED <<assign_vars, project_vars, further_vars>>

\* trajs = load_trajectories(args.project, args.stride) (line 179), on a
\* project of n_trajs trajectories.
load_trajectories ==
    /\ script_pc = "checked"
    /\ ~(args.alg = "sclarans" /\ args.stride # 1)
    /\ \E n_trajs \in 1 .. MaxTrajs :
          trajs' = [t \in 1 .. n_trajs |-> t - 1]
    /\ script_pc' = "loaded"
    /\ UNCHANGED <<argv, args, disk, clusterer>>
    /\ UNCHANGED <<assign_vars, project_vars, further_vars>>

\* clusterer = cluster(metric, trajs, args) (line 182).
cluster ==
    /\ script_pc = "loaded"
    /\ clusterer' = Clusterer(args, trajs)
    /\ disk' = IF args.alg = "hierarchical"
               THEN disk \cup {args.hierarchical_save_zmatrix} ELSE disk
    /\ script_pc' = "clustered"
    /\ UNCHANGED <<argv, args, trajs>>
    /\ UNCHANGED <<assign_vars, project_vars, further_vars>>

\* The rest of main (lines 184-195): the generators, and with stride 1 the
\* assignments and the distances, are saved.
save_results ==
    /\ script_pc = "clustered"
    /\ disk' = disk \cup WrittenPaths(args)
    /\ script_pc' = "done"
    /\ UNCHANGED <<argv, args, trajs, clusterer>>
    /\ UNCHANGED <<assign_vars, project_vars, further_vars>>

\* msmio.saveh raises IOError (lines 194-195): a file in the way holds an
\* array 'arr_0' already.  The generators have been saved, and so have the
\* assignments when it is the file of the distances that is in the way.
save_results_fails ==
    /\ script_pc = "clustered"
    /\ args.alg # "hierarchical"
    /\ args.stride = 1
    /\ \/ /\ SavedAs(args.assignments) \in disk
          /\ disk' = disk \cup {args.generators}
       \/ /\ SavedAs(args.distances) \in disk
          /\ disk' = disk \cup {args.generators, SavedAs(args.assignments)}
    /\ script_pc' = "died"
    /\ UNCHANGED <<argv, args, trajs, clusterer>>
    /\ UNCHANGED <<assign_vars, project_vars, further_vars>>

ClusterNext ==
    \/ parse_args
    \/ check_paths
    \/ sclarans_stride_exit
    \/ load_trajectories
    \/ cluster
    \/ save_results
    \/ save_results_fails

ClusterSpec == ClusterInit /\ [][ClusterNext]_vars

\* ------------------------------------------------------------------ Project
\* The three implementations of the class Project.
Implementations == {"project/project.py", "project.py", "Project.py"}

PerTrajectory == {"traj_lengths", "traj_errors", "traj_paths",
                  "traj_converted_from"}

\* Project.mapping: the names each attribute can be given under in records.
mapping(c) ==
    IF c = "project/project.py"
    THEN [_conf_filename |-> {"conf_filename"},
          _traj_lengths |-> {"traj_lengths"},
          _traj_paths |-> {"traj_paths"},
          _traj_converted_from |-> {"traj_converted_from"},
          _traj_errors |-> {"traj_errors"}]
    ELSE [_conf_filename |-> {"conf_filename", "ConfFilename"},
          _n_trajs |-> {"n_trajs", "NumTrajs"},
          _traj_lengths |-> {"traj_lengths", "TrajLengths"},
          _traj_basename |-> {"traj_basename", "TrajFileBaseName"},
          _traj_path |-> {"traj_path", "TrajFilePath"},
          _traj_ext |-> {"traj_ext", "TrajFileType"}]

\* The attributes __init__ sets to None before it reads the records.
NoneAtFirst(c) ==
    IF c = "project/project.py"
    THEN {"_conf_filename", "_traj_lengths", "_traj_paths",
          "_traj_converted_from"}
    ELSE {"_conf_filename", "_n_trajs", "_traj_lengths", "_traj_basename",
          "_traj_ext"}

\* set(val) & records_keys: the names of an attribute found in the records.
Matches(c, r, attr) == mapping(c)[attr] \cap DOMAIN r

\* assert len(match) == 1, 'duplicate keys detected'
Duplicates(c, r) ==
    {attr \in DOMAIN mapping(c) : Cardinality(Matches(c, r, attr)) > 1}

\* The names whose value is a word or None; the other values are lists or
\* numbers.
Words == {"conf_filename", "ConfFilename", "traj_basename",
          "TrajFileBaseName", "traj_path", "TrajFilePath", "traj_ext",
          "TrajFileType"}

\* The attributes of the object after the loop over the mapping (the first
\* loop of __init__): an attribute found in the records has its value there,
\* another one is None if it was set to None at first, and does not exist
\* otherwise.
Attributes(c, r) ==
    [attr \in {a \in DOMAIN mapping(c) :
                  Matches(c, r, a) # {} \/ a \in NoneAtFirst(c)} |->
        IF Matches(c, r, attr) # {}
        THEN r[CHOOSE name \in Matches(c, r, attr) : TRUE]
        ELSE None]

\* getattr(self, key) is None
IsNone(c, r, attr) ==
    IF Matches(c, r, attr) = {} THEN attr \in NoneAtFirst(c)
    ELSE LET name == CHOOSE n \in Matches(c, r, attr) : TRUE
         IN  name \in Words /\ r[name] = None

\* The second loop of __init__: the exception each attribute makes it raise.
\* getattr of an attribute that does not exist raises AttributeError.
Offences(c, r) ==
    {[attr |-> attr,
      raised |-> IF attr \notin DOMAIN Attributes(c, r)
                 THEN "AttributeError"
                 ELSE "ValueError: attribute missing"] :
        attr \in {a \in DOMAIN mapping(c) :
                    a \notin DOMAIN Attributes(c, r) \/ IsNone(c, r, a)}}

\* Project.n_trajs
n_trajs(c, attrs) ==
    IF c = "project/project.py" THEN Len(attrs._traj_lengths)
    ELSE attrs._n_trajs

\* Project.traj_filename(traj_index), below the project directory.
traj_filename(c, attrs, traj_index) ==
    IF c = "project/project.py" THEN attrs._traj_paths[traj_index + 1]
    ELSE <<attrs._traj_path, attrs._traj_basename, traj_index,
           attrs._traj_ext>>

\* Project._validate: the exception raised, or "none".
_validate(c, attrs, files) ==
    IF c = "project/project.py"
    THEN IF files = "no conf" THEN "ValueError: conf does not exist"
         ELSE IF files = "no traj" /\ Len(attrs._traj_paths) > 0
         THEN "ValueError: traj does not exist"
         ELSE IF Len(attrs._traj_paths) < n_trajs(c, attrs)
         THEN "IndexError"
         ELSE IF files = "other lengths" /\ n_trajs(c, attrs) > 0
         THEN "ValueError: lengths on disk"
         ELSE "none"
    ELSE IF attrs._n_trajs # Len(attrs._traj_lengths)
         THEN "ValueError: traj lengths mismatch"
         ELSE IF files = "no conf" THEN "ValueError: conf does not exist"
         ELSE IF files = "no traj" THEN "ValueError: traj does not exist"
         ELSE IF files = "other lengths" /\ c = "project.py"
         THEN "ValueError: lengths on disk"
         ELSE "none"

\* Project.__init__(records, validate): the exceptions the call can end
\* with, "none" for a call that returns.  The order in which the second loop
\* meets the attributes is that of a dict, so either offence can be first.
__init__(c, r, v, files) ==
    IF Duplicates(c, r) # {} THEN {"AssertionError"}
    ELSE IF Offences(c, r) # {} THEN {o.raised : o \in Offences(c, r)}
    ELSE IF v THEN {_validate(c, Attributes(c, r), files)}
    ELSE {"none"}

\* Records in the names of project/project.py for n trajectories: the list
\* short, if any, is one entry too short, the field missing, if any, is left
\* out, and the trajectories of errs are recorded with an error.
NewRecords(n, conf, short, missing, errs) ==
    LET len(name) == IF name = short THEN n - 1 ELSE n
        full == [conf_filename |-> conf,
                 traj_lengths |-> [k \in 1 .. len("traj_lengths") |-> k],
                 traj_paths |-> [k \in 1 .. len("traj_paths") |-> <<"t", k - 1>>],
                 traj_converted_from |->
                     [k \in 1 .. len("traj_converted_from") |-> None],
                 traj_errors |->
                     [k \in 1 .. len("traj_errors") |->
                         IF k \in errs THEN "ExplosionError" ELSE None]]
    IN  [name \in (DOMAIN full) \ {missing} |-> full[name]]

\* The alternate name of each field in project.py and Project.py.
AlternateName ==
    [conf_filename |-> "ConfFilename", n_trajs |-> "NumTrajs",
     traj_lengths |-> "TrajLengths", traj_basename |-> "TrajFileBaseName",
     traj_path |-> "TrajFilePath", traj_ext |-> "TrajFileType"]

\* Records in the names of project.py and Project.py: under the first names,
\* under the alternate names, or with the conf file under both.
OldRecords(n, short, missing, names) ==
    LET full == [conf_filename |-> "conf.pdb",
                 n_trajs |-> n,
                 traj_lengths |->
                     [k \in 1 .. (IF short THEN n - 1 ELSE n) |-> k],
                 traj_basename |-> "trj",
                 traj_path |-> "Trajectories",
                 traj_ext |-> ".lh5"]
        present == (DOMAIN full) \ {missing}
        first == [name \in present |-> full[name]]
    IN  CASE names = "first" -> first
          [] names = "alternate" ->
                [name \in {AlternateName[f] : f \in present} |->
                    full[CHOOSE f \in present : AlternateName[f] = name]]
          [] OTHER ->
                [name \in present \cup {"ConfFilename"} |->
                    IF name = "ConfFilename" THEN "conf.pdb" ELSE full[name]]

\* What _validate can find on disk.
ProjectFiles == {"complete", "no conf", "no traj", "other lengths"}

ProjectInit ==
    /\ AssignIdle
    /\ ScriptIdle
    /\ FurtherIdle
    /\ cls \in Implementations
    /\ validate \in BOOLEAN
    /\ project_files \in ProjectFiles
    /\ \E n \in 1 .. MaxTrajs :
          IF cls = "project/project.py"
          THEN \E conf \in {None, "conf.pdb"},
                  short \in {None} \cup PerTrajectory,
                  missing \in {None} \cup PerTrajectory \cup {"conf_filename"},
                  errs \in SUBSET (1 .. n) :
                  records = NewRecords(n, conf, short, missing, errs)
          ELSE \E short \in BOOLEAN,
                  missing \in {None} \cup DOMAIN AlternateName,
                  names \in {"first", "alternate", "both"} :
                  records = OldRecords(n, short, missing, names)
    /\ project = None
    /\ raised = "pending"

\* Project(records, validate=validate) returns the object.
Construct ==
    /\ raised = "pending"
    /\ "none" \in __init__(cls, records, validate, project_files)
    /\ project' = Attributes(cls, records)
    /\ raised' = "none"
    /\ UNCHANGED <<cls, records, validate, project_files>>
    /\ UNCHANGED <<assign_vars, script_vars, further_vars>>

\* Project(records, validate=validate) raises.
ConstructFails ==
    /\ raised = "pending"
    /\ \E e \in __init__(cls, records, validate, project_files) \ {"none"} :
          raised' = e
    /\ project' = None
    /\ UNCHANGED <<cls, records, validate, project_files>>
    /\ UNCHANGED <<assign_vars, script_vars, further_vars>>

\* The names save is called with: a directory, a base name and its suffixes.
\* The project directory is '.', the default of __init__.
SaveNames == {<<".", "ProjectInfo">>, <<".", "ProjectInfo", "yaml">>,
              <<"sub", "ProjectInfo", "yaml">>, <<"sub", "ProjectInfo", "h5">>}

\* filename.endswith('.' + suffix)
endswith(filename, suffix) == filename[Len(filename)] = suffix

\* The records save dumps to filename: a list of one dict per trajectory
\* under 'trajs', and the conf file name; the paths are joined to relative,
\* os.path.relpath(self._project_dir, os.path.dirname(filename_or_file)).
SavedRecords(attrs, filename) ==
    LET relative == IF filename[1] = "." THEN "." ELSE ".."
    IN  [trajs |-> [k \in 1 .. Len(attrs._traj_paths) |->
                       [id |-> k - 1,
                        path |-> <<relative>> \o attrs._traj_paths[k],
                        converted_from |-> attrs._traj_converted_from[k],
                        length |-> attrs._traj_lengths[k],
                        errors |-> attrs._traj_errors[k]]],
         conf_filename |-> IF relative = "." THEN "./conf.pdb"
                           ELSE "../conf.pdb"]

\* Project.save(filename_or_file) with a file name: '.yaml' is appended to a
\* name that does not end with it, the records are dumped to the file, and
\* the name of the file is returned.  An entry read from a list shorter than
\* _traj_paths raises IndexError.
save ==
    /\ cls = "project/project.py"
    /\ raised = "none"
    /\ reload.pc = "idle"
    /\ \E filename_or_file \in SaveNames :
          LET filename == IF endswith(filename_or_file, "yaml")
                          THEN filename_or_file
                          ELSE Append(filename_or_file, "yaml")
              short == \E l \in {"_traj_converted_from", "_traj_lengths",
                                 "_traj_errors"} :
                          Len(project[l]) < Len(project._traj_paths)
          IN  reload' = IF short
                        THEN [reload EXCEPT !.pc = "save failed",
                                            !.filename = filename,
                                            !.raised = "IndexError"]
                        ELSE [reload EXCEPT
                                 !.pc = "saved",
                                 !.filename = filename,
                                 !.written =
                                     SavedRecords(project, filename)]
    /\ UNCHANGED beside_reload

\* Project.load_from(filename) on the file save wrote, or on that name
\* without its last suffix: the records read are handed to
\* cls(records, validate=True, project_dir=rootdir).
load_from ==
    /\ reload.pc = "saved"
    /\ \E filename \in {reload.filename, SubSeq(reload.filename, 1,
                                               Len(reload.filename) - 1)} :
          IF endswith(filename, "yaml")
          THEN \E e \in __init__(cls, reload.written, TRUE, project_files) :
                  reload' = [reload EXCEPT
                                !.pc = "loaded",
                                !.raised = e,
                                !.loaded =
                                    IF e = "none"
                                    THEN Attributes(cls, reload.written)
                                    ELSE None]
          ELSE reload' = [reload EXCEPT
                             !.pc = "not loaded",
                             !.raised = IF endswith(filename, "h5")
                                        THEN "IOError"
                                        ELSE "ValueError: format"]
    /\ UNCHANGED beside_reload

ProjectNext ==
    \/ Construct
    \/ ConstructFails
    \/ save
    \/ load_from

ProjectSpec == ProjectInit /\ [][ProjectNext]_vars

\* ------------------------------------------------------------ ProjectBuilder
\* What the registered validators do with a trajectory (_validate_traj): they
\* all return, or the first that raises ends the call with its exception.
Verdicts == {None, "ValidationError", "ExplosionError", "TypeError"}

\* A plausible slip: the except clause catches nothing.
ExceptNothing(e) == FALSE

\* except ValidationError as e: the exceptions that subclass ValidationError.
ExceptValidationError(e) == e \in {"ValidationError", "ExplosionError"}

\* len(traj["XYZList"][::stride])
Strided(frames, stride) == (frames + stride - 1) \div stride

\* os.path.join(output_traj_dir, output_traj_basename + str(i) + '.lh5')
lh5_fn(k) == <<"Trajectories", "trj", k, ".lh5">>

\* The file lists _input_trajs yields: the frames the files of each directory
\* hold together and what the validators do with the trajectory.
InputTrajs ==
    UNION {[1 .. n -> [frames : 1 .. MaxLen + 1, verdict : Verdicts]] :
              n \in 0 .. MaxTrajs}

\* The local lists of convert().
NoLists == [traj_lengths |-> <<>>, traj_paths |-> <<>>, traj_errors |-> <<>>,
            traj_converted_from |-> <<>>]

\* ProjectBuilder(input_traj_dir, '.xtc', conf_filename, stride=stride,
\* validators=[...]) has returned: the output directory is new and empty.
BuilderInit ==
    /\ AssignIdle
    /\ ScriptIdle
    /\ ProjectIdle
    /\ IoIdle
    /\ MetricIdle
    /\ ReloadIdle
    /\ \E inputs \in InputTrajs, stride \in 1 .. 2 :
          builder = [inputs |-> inputs, stride |-> stride, pc |-> "made",
                     i |-> 0, lists |-> NoLists, saved |-> <<>>,
                     project |-> None, raised |-> "none"]

\* convert() is called (also by get_project): lines 122-125.
convert ==
    /\ builder.pc = "made"
    /\ builder' = [builder EXCEPT !.pc = "convert", !.i = 0,
                                  !.lists = NoLists]
    /\ UNCHANGED beside_builder

\* One pass of the loop of convert (lines 127-145): the trajectory is loaded,
\* strided, saved and recorded, and then the validators are run on it.
convert_trajectory ==
    /\ builder.pc = "convert"
    /\ builder.i < Len(builder.inputs)
    /\ LET input == builder.inputs[builder.i + 1]
           length == Strided(input.frames, builder.stride)
           saved == Append(builder.saved,
                           [path |-> lh5_fn(builder.i), frames |-> length])
           recorded ==
               [builder.lists EXCEPT
                   !.traj_lengths = Append(@, length),
                   !.traj_paths = Append(@, lh5_fn(builder.i)),
                   !.traj_converted_from = Append(@, <<"XTC", builder.i>>)]
       IN  IF input.verdict = None \/ ExceptValidationError(input.verdict)
           THEN builder' =
                   [builder EXCEPT
                       !.saved = saved,
                       !.lists = [recorded EXCEPT
                                     !.traj_errors = Append(@, input.verdict)],
                       !.i = @ + 1]
           ELSE builder' =
                   [builder EXCEPT !.saved = saved, !.lists = recorded,
                                   !.pc = "raised",
                                   !.raised = input.verdict]
    /\ UNCHANGED beside_builder

\* The records convert() hands to Project (lines 150-154).
BuiltRecords(b) ==
    [conf_filename |-> "native.pdb",
     traj_lengths |-> b.lists.traj_lengths,
     traj_paths |-> b.lists.traj_paths,
     traj_errors |-> b.lists.traj_errors,
     traj_converted_from |-> b.lists.traj_converted_from]

\* What Project._validate finds on disk after the loop; the conf file is the
\* one the trajectories were loaded with.
BuiltFiles(b) ==
    LET r == BuiltRecords(b)
        on_disk(path) == {k \in 1 .. Len(b.saved) : b.saved[k].path = path}
    IN  IF \E k \in 1 .. Len(r.traj_paths) : on_disk(r.traj_paths[k]) = {}
        THEN "no traj"
        ELSE IF \E k \in 1 .. Len(r.traj_lengths) :
                   \E f \in on_disk(r.traj_paths[k]) :
                       b.saved[f].frames # r.traj_lengths[k]
        THEN "other lengths"
        ELSE "complete"

\* The end of convert (lines 147-154): no conversion jobs, or the project.
convert_returns ==
    /\ builder.pc = "convert"
    /\ builder.i = Len(builder.inputs)
    /\ IF Len(builder.lists.traj_paths) = 0
       THEN builder' = [builder EXCEPT !.pc = "raised",
                                       !.raised = "RuntimeError"]
       ELSE \E e \in __init__("project/project.py", BuiltRecords(builder),
                              TRUE, BuiltFiles(builder)) :
               IF e = "none"
               THEN builder' =
                       [builder EXCEPT
                           !.pc = "built",
                           !.project = Attributes("project/project.py",
                                                  BuiltRecords(builder))]
               ELSE builder' = [builder EXCEPT !.pc = "raised", !.raised = e]
    /\ UNCHANGED beside_builder

BuilderNext ==
    \/ convert
    \/ convert_trajectory
    \/ convert_returns

BuilderSpec == BuilderInit /\ [][BuilderNext]_vars

\* -------------------------------------------------------------- saveh, loadh
\* The module the functions are taken from.
IoModules == {"io.py", "msmio.py"}

\* The names arrays are stored under: the first un-named array and 'Data'.
ArrayNames == {"arr_0", "Data"}

\* What a call is given to save: an array, a list (not a numpy array) or an
\* array of objects (a dtype that has no atom).
Arguments == {"b", "list", "objects"}

\* isinstance(val, np.ndarray)
IsArray(val) == val # "list"

\* tables.Atom.from_dtype(val.dtype) returns an atom.
HasAtom(val) == val # "objects"

\* The paths of the files: 'f.h5' and 'f.h5.hdf'.
IoPaths == {<<"f", "h5">>, <<"f", "h5", "hdf">>}

\* The files at first: absent, or holding the array "a" under some names.
InitialFiles ==
    {NoFile} \cup
    {CompleteFile([name \in names |-> "a"]) : names \in SUBSET ArrayNames}

\* The file argument: a name, an open tables.File, or something else.
FileArguments ==
    [kind : {"name", "handle"}, path : IoPaths]
        \cup {[kind |-> "other", path |-> <<>>]}

\* The file a name stands for in saveh: msmio.py appends '.hdf'.
Target(module, path) == IF module = "msmio.py" THEN HdfName(path) ELSE path

\* 'arr_%d' % i, for the one un-named array a call is given here.
ArrKey(k) == "arr_0"

\* if key in namedict.keys(): raise ValueError
NameClash(unnamed, kwargs) ==
    \E k \in 1 .. Len(unnamed) : ArrKey(k - 1) \in DOMAIN kwargs

\* namedict: the keyword arrays and the un-named ones under 'arr_<i>'.
NameDict(unnamed, kwargs) ==
    [name \in (DOMAIN kwargs) \cup {ArrKey(k - 1) : k \in 1 .. Len(unnamed)} |->
        IF name \in DOMAIN kwargs THEN kwargs[name]
        ELSE unnamed[CHOOSE k \in 1 .. Len(unnamed) : ArrKey(k - 1) = name]]

\* The orders namedict.iteritems() can yield the names in.
Orders(names) ==
    {order \in [1 .. Cardinality(names) -> names] :
        \A a \in DOMAIN order : \A b \in DOMAIN order :
            a # b => order[a] # order[b]}

\* A plausible slip: the overwriting test dropped.
AlreadyExistsNever(names, current_nodes) == FALSE

\* for key in namedict.keys(): if key in current_nodes: raise IOError
AlreadyExists(names, current_nodes) == \E key \in names : key \in current_nodes

\* The loop that saves the arrays, from the k-th name of the order on: the
\* arrays of the file afterwards and the exception that ended the loop.
RECURSIVE StoreArrays(_, _, _, _)
StoreArrays(arrays, dict, order, k) ==
    IF k > Len(order) THEN [arrays |-> arrays, raised |-> "none"]
    ELSE IF ~IsArray(dict[order[k]]) \/ ~HasAtom(dict[order[k]])
    THEN [arrays |-> arrays, raised |-> "TypeError"]
    ELSE StoreArrays([name \in (DOMAIN arrays) \cup {order[k]} |->
                         IF name = order[k] THEN dict[name] ELSE arrays[name]],
                     dict, order, k + 1)

\* saveh(file, *args, **kwargs): the outcomes the call can have (one for each
\* order of the names): the files afterwards, the exception raised ("none"
\* when the call returns) and whether the handle is left open.
SavehOutcomes(module, files, file, unnamed, kwargs) ==
    LET own_fid == file.kind = "name"
        target == IF own_fid THEN Target(module, file.path) ELSE file.path
        opened == IF own_fid THEN OpenAppend(files, target) ELSE files
        dict == NameDict(unnamed, kwargs)
        stored(order) == StoreArrays(opened[target].arrays, dict, order, 1)
    IN  IF file.kind = "other"
        THEN {[files |-> files, raised |-> "TypeError: file", open |-> FALSE]}
        ELSE IF NameClash(unnamed, kwargs)
        THEN {[files |-> opened, raised |-> "ValueError", open |-> TRUE]}
        ELSE IF AlreadyExists(DOMAIN dict, DOMAIN opened[target].arrays)
        THEN {[files |-> opened, raised |-> "IOError", open |-> TRUE]}
        ELSE {IF stored(order).raised # "none"
              THEN [files |-> IF own_fid
                              THEN [opened EXCEPT ![target] = NoFile]
                              ELSE [opened EXCEPT
                                       ![target].arrays = stored(order).arrays],
                    raised |-> stored(order).raised,
                    open |-> FALSE]
              ELSE [files |-> [opened EXCEPT
                                  ![target].arrays = stored(order).arrays],
                    raised |-> "none",
                    open |-> ~own_fid] :
                 order \in Orders(DOMAIN dict)}

\* A plausible slip: a missing node is reported as in msmio.py.
NoSuchNodeValueError(module) == "ValueError"

\* except tables.NoSuchNodeError: KeyError in io.py, ValueError in msmio.py.
NoSuchNode(module) == IF module = "io.py" THEN "KeyError" ELSE "ValueError"

\* loadh(file, name) for a single name: the array returned and the exception
\* raised.  The name of the file is used as it is given.
loadh(module, files, file, name) ==
    IF file.kind = "other"
    THEN [result |-> None, raised |-> "TypeError: file"]
    ELSE IF ~Exists(files, file.path)
    THEN [result |-> None, raised |-> "IOError"]
    ELSE IF name \notin DOMAIN files[file.path].arrays
    THEN [result |-> None, raised |-> NoSuchNode(module)]
    ELSE [result |-> files[file.path].arrays[name], raised |-> "none"]

IoInit ==
    /\ AssignIdle
    /\ ScriptIdle
    /\ ProjectIdle
    /\ BuilderIdle
    /\ MetricIdle
    /\ ReloadIdle
    /\ \E module \in IoModules, files \in [IoPaths -> InitialFiles] :
          LET nothing == [kind |-> "none", path |-> <<>>]
              no_load == [file |-> nothing, name |-> None, result |-> None,
                          raised |-> "none"]
          IN  io = [module |-> module, files |-> files, before |-> files,
                    pc |-> "ready",
                    saved |-> [file |-> nothing, args |-> <<>>,
                               kwargs |-> NoArrays, raised |-> "none",
                               open |-> FALSE],
                    first |-> no_load, loaded |-> no_load]

\* A caller saves arrays: saveh(file, *args, **kwargs).  An open handle is a
\* handle on a file that exists.
call_saveh ==
    /\ io.pc = "ready"
    /\ \E file \in FileArguments,
          unnamed \in {<<>>} \cup {<<val>> : val \in Arguments},
          names \in SUBSET ArrayNames :
          \E kwargs \in [names -> Arguments] :
             /\ file.kind = "handle" => Exists(io.files, file.path)
             /\ \E out \in SavehOutcomes(io.module, io.files, file, unnamed,
                                         kwargs) :
                   io' = [io EXCEPT
                             !.pc = "saved",
                             !.files = out.files,
                             !.saved = [file |-> file, args |-> unnamed,
                                        kwargs |-> kwargs,
                                        raised |-> out.raised,
                                        open |-> out.open]]
    /\ UNCHANGED beside_io

\* A caller loads one array: loadh(file, name).
call_loadh ==
    /\ io.pc \in {"ready", "saved"}
    /\ \E file \in FileArguments, name \in ArrayNames :
          /\ file.kind = "handle" => Exists(io.files, file.path)
          /\ LET out == loadh(io.module, io.files, file, name)
                 load == [file |-> file, name |-> name,
                          result |-> out.result, raised |-> out.raised]
             IN  io' = [io EXCEPT !.pc = "loaded", !.first = load,
                                  !.loaded = load]
    /\ UNCHANGED beside_io

\* The fall back of PCCA.py (lines 93-96): loadh(file, 'arr_0') has raised
\* KeyError, and the caller asks the same file for 'Data'.
fall_back ==
    /\ io.pc = "loaded"
    /\ io.loaded.name = "arr_0"
    /\ io.loaded.raised = "KeyError"
    /\ LET out == loadh(io.module, io.files, io.loaded.file, "Data")
       IN  io' = [io EXCEPT
                     !.pc = "fellback",
                     !.loaded = [file |-> io.loaded.file, name |-> "Data",
                                 result |-> out.result,
                                 raised |-> out.raised]]
    /\ UNCHANGED beside_io

IoNext ==
    \/ call_saveh
    \/ call_loadh
    \/ fall_back

IoSpec == IoInit /\ [][IoNext]_vars

\* ------------------------------------------------------------ metric calls
\* A plausible slip: the distances are taken from the first frame.
one_to_many_from_first(ptraj, pgens, j, indices) ==
    [k \in 1 .. Len(indices) |-> Abs(ptraj[1] - pgens[indices[k] + 1])]

\* metric.one_to_many(ptraj, pgens, j, indices): distance from frame j of
\* ptraj to the listed frames of pgens only.
one_to_many(ptraj, pgens, j, indices) ==
    [k \in 1 .. Len(indices) |-> Abs(ptraj[j + 1] - pgens[indices[k] + 1])]

\* Trajectories of single-atom frames, of one frame at least.
Trajectories == UNION {[1 .. n -> 0 .. 2] : n \in 1 .. MaxLen}

\* The index lists a call of one_to_many is given: one or two valid indices.
IndexLists(q) ==
    UNION {[1 .. n -> 0 .. Len(q) - 1] : n \in 1 .. 2}

MetricInit ==
    /\ AssignIdle
    /\ ScriptIdle
    /\ ProjectIdle
    /\ BuilderIdle
    /\ IoIdle
    /\ ReloadIdle
    /\ \E p \in Trajectories, q \in Trajectories :
          \E index \in 0 .. Len(p) - 1 :
             metric_call = [p |-> prepare_trajectory(p),
                            q |-> prepare_trajectory(q),
                            i |-> index, indices |-> <<>>,
                            all |-> <<>>, many |-> <<>>]

\* d = metric.one_to_all(p, q, i)
call_one_to_all ==
    /\ metric_call.all = <<>>
    /\ metric_call' =
          [metric_call EXCEPT
              !.all = one_to_all(metric_call.p, metric_call.q, metric_call.i)]
    /\ UNCHANGED beside_metric

\* d = metric.one_to_many(p, q, i, indices)
call_one_to_many ==
    /\ metric_call.many = <<>>
    /\ \E indices \in IndexLists(metric_call.q) :
          metric_call' =
             [metric_call EXCEPT
                 !.indices = indices,
                 !.many = one_to_many(metric_call.p, metric_call.q,
                                      metric_call.i, indices)]
    /\ UNCHANGED beside_metric

MetricNext ==
    \/ call_one_to_all
    \/ call_one_to_many

MetricSpec == MetricInit /\ [][MetricNext]_vars

\* ------------------------------------------------------------------ claims
Trajs == 0 .. NumTrajs - 1

Checkpointing == {"checkpoint", "streaming"}

\* The positions at which a checkpointed or streaming run holds its matrices.
InRun == pc \in ({"loop", "returned"} \cup CommitSteps) /\ mode \in Checkpointing

\* A step that is the startup of a checkpointed or streaming run.
IsStartup == pc \in Stopped /\ mode' \in Checkpointing /\ hist'.runs = hist.runs + 1

\* Row t of the matrix stored in a file is there and holds no sentinel in the
\* columns of the trajectory's frames.
FullRowOnDisk(file, t) ==
    /\ "Data" \in DOMAIN file.arrays
    /\ t \in DOMAIN file.arrays.Data
    /\ \A j \in 0 .. traj_lengths[t] - 1 :
          /\ j \in DOMAIN file.arrays.Data[t]
          /\ file.arrays.Data[t][j] # Sentinel

\* Row t of both matrices in memory holds no sentinel in the columns of the
\* trajectory's frames.
FullRowInMemory(t) ==
    \A j \in 0 .. traj_lengths[t] - 1 :
        all_assignments[t][j] # Sentinel /\ all_distances[t][j] # Sentinel

\* The trajectory count a container records: the length of its hashes, of its
\* completion flags or of its matrix, whichever it stores.
RecordedCount(file) ==
    IF "hashes" \in DOMAIN file.arrays THEN Len(file.arrays.hashes)
    ELSE IF "completed_trajectories" \in DOMAIN file.arrays
    THEN Cardinality(DOMAIN file.arrays.completed_trajectories)
    ELSE IF "completed_trajs" \in DOMAIN file.arrays
    THEN Cardinality(DOMAIN file.arrays.completed_trajs)
    ELSE IF "Data" \in DOMAIN file.arrays
    THEN Cardinality(DOMAIN file.arrays.Data)
    ELSE 0

\* C1: a checkpointed run that is restarted after an interruption completes,
\* and the matrices it returns are those of assign_in_memory on the same
\* metric, generators and project.
C1_ResumedRunEqualsInMemory ==
    (hist.interrupted /\ hist.requested = "checkpoint"
        /\ pc \in {"failed", "returned"})
    => /\ pc = "returned"
       /\ all_assignments = InMemoryResult.assignments
       /\ all_distances = InMemoryResult.distances

\* C2: a trajectory flagged complete at the startup of a checkpointed or
\* streaming run is never loaded, whole or in chunks, no row is computed for
\* it, and its rows of both matrices stay as they were at the startup.
C2_CompletedAtStartupSkipped ==
    InRun =>
        \A t \in Trajs :
            hist.start_completed[t] =>
                /\ t \notin hist.loaded
                /\ t \notin hist.chunked
                /\ \A k \in 1 .. Len(hist.order) : hist.order[k] # t
                /\ all_assignments[t] = hist.start_assignments[t]
                /\ all_distances[t] = hist.start_distances[t]

\* C2 witness: a run that found one trajectory complete and assigned another
\* has returned.
C2_Witness ==
    /\ InRun
    /\ pc = "returned"
    /\ \E t \in Trajs : hist.start_completed[t]
    /\ hist.loaded \cup hist.chunked # {}

\* C3: a run restarted after a kill that followed a checkpoint commit passes
\* the startup check and starts from the completion flags the commit wrote.
C3_RestartKeepsItsPlace ==
    (hist.resumed /\ hist.requested \in Checkpointing /\ pc # "killed")
    => /\ error = "none"
       /\ hist.start_completed = hist.last_commit

\* C4: during a checkpoint commit a canonical file changes only in the rename
\* step, and then to the complete new content; it is never half written.
CommitStepKeepsCanonical ==
    pc \in CommitSteps =>
        /\ fs'[assignments_fn] # fs[assignments_fn] =>
              /\ pc = "rename_assignments"
              /\ fs'[assignments_fn] =
                    CompleteFile(AssignmentsCheckpoint(all_assignments,
                                                       completed_trajectories))
        /\ fs'[distances_fn] # fs[distances_fn] =>
              /\ pc = "rename_distances"
              /\ fs'[distances_fn] =
                    CompleteFile(DistancesCheckpoint(all_distances))

C4_CanonicalOldOrNew == [][CommitStepKeepsCanonical]_vars

\* C4 witness: the commit has replaced the canonical assignments file by the
\* new checkpoint while a temporary distances file is still waiting.
C4_Witness ==
    /\ pc = "rename_distances"
    /\ fs[assignments_fn] =
          CompleteFile(AssignmentsCheckpoint(all_assignments,
                                             completed_trajectories))
    /\ Exists(fs, distances_tmp)
    /\ ~Exists(fs, assignments_tmp)

\* C5: after a crash the two canonical files agree: every trajectory that the
\* persisted completion flags mark complete has its full row in both files.
C5_CanonicalPairConsistent ==
    pc = "killed" =>
        \A t \in Trajs :
            (/\ t \in DOMAIN StoredFlags(fs[assignments_fn], NumTrajs)
             /\ StoredFlags(fs[assignments_fn], NumTrajs)[t])
            => /\ FullRowOnDisk(fs[assignments_fn], t)
               /\ FullRowOnDisk(fs[distances_fn], t)

RunStepKeepsFlags ==
    (InRun /\ hist'.runs = hist.runs
           /\ pc' \in ({"loop", "returned", "failed"} \cup CommitSteps)) =>
        \A t \in Trajs :
            completed_trajectories[t] => completed_trajectories'[t]

C7_FlagsMonotonic == [][RunStepKeepsFlags]_vars

\* C7 witness: a run holds a flag it found true at the startup next to a flag
\* it set itself.
C7_Witness ==
    /\ InRun
    /\ \E t \in Trajs : hist.start_completed[t] /\ completed_trajectories[t]
    /\ \E t \in Trajs : ~hist.start_completed[t] /\ completed_trajectories[t]

\* C8: at a startup that finds both canonical files, a recorded trajectory
\* count that differs from the project's fails the run with the files
\* untouched, and matching counts let the run proceed.
StartupChecksCount ==
    (IsStartup /\ Exists(fs, assignments_fn) /\ Exists(fs, distances_fn)) =>
        IF \/ RecordedCount(fs[assignments_fn]) # NumTrajs
           \/ RecordedCount(fs[distances_fn]) # NumTrajs
        THEN pc' = "failed" /\ fs' = fs
        ELSE pc' = "loop"

C8_CountCheckDecides == [][StartupChecksCount]_vars

\* C9: a startup that finds exactly one of the two canonical files fails and
\* leaves every file as it was; a startup changes files only when it finds
\* neither.
StartupRejectsLoneContainer ==
    IsStartup =>
        /\ (Exists(fs, assignments_fn) # Exists(fs, distances_fn)) =>
              /\ pc' = "failed"
              /\ \A p \in Paths \ {outputdir} : fs'[p] = fs[p]
        /\ (\E p \in Paths \ {outputdir} : fs'[p] # fs[p]) =>
              /\ ~Exists(fs, assignments_fn)
              /\ ~Exists(fs, distances_fn)

C9_LoneContainerRejected == [][StartupRejectsLoneContainer]_vars

\* C9 witness: a run has failed for a missing container, with one of the two
\* files on disk.
C9_Witness ==
    /\ pc = "failed"
    /\ error = "ValueError: missing container"
    /\ Exists(fs, assignments_fn) # Exists(fs, distances_fn)

\* C10: every entry of the assignment matrix is the sentinel or a cluster
\* index below the number of generators.
C10_IndicesInRange ==
    \A t \in DOMAIN all_assignments :
        \A j \in DOMAIN all_assignments[t] :
            \/ all_assignments[t][j] = Sentinel
            \/ (0 <= all_assignments[t][j]
                /\ all_assignments[t][j] < Len(prepare_trajectory(generators)))

\* C10 witness: a returned matrix holds the highest cluster index next to a
\* padding entry.
C10_Witness ==
    /\ pc = "returned"
    /\ \E t \in DOMAIN all_assignments :
          \E j \in DOMAIN all_assignments[t] :
              all_assignments[t][j] = Len(generators) - 1
    /\ \E t \in DOMAIN all_assignments :
          \E j \in DOMAIN all_assignments[t] :
              all_assignments[t][j] = Sentinel

\* The two matrices have the shape n_trajs x longest, an entry is the sentinel
\* in one exactly when it is in the other, and every entry at or beyond the
\* length of its trajectory is the sentinel.
SamePattern(a, d) ==
    /\ DOMAIN a = Trajs
    /\ DOMAIN d = Trajs
    /\ \A t \in Trajs :
          /\ DOMAIN a[t] = 0 .. Longest - 1
          /\ DOMAIN d[t] = 0 .. Longest - 1
          /\ \A j \in 0 .. Longest - 1 :
                /\ (a[t][j] = Sentinel) <=> (d[t][j] = Sentinel)
                /\ j >= traj_lengths[t] => a[t][j] = Sentinel

\* C11: the matrices a run of any mode returns, and the matrices of every
\* committed checkpoint, have the same shape and the same sentinel pattern,
\* with the sentinel at and beyond each trajectory's length.
StepKeepsPattern ==
    /\ (pc # "returned" /\ pc' = "returned") =>
          SamePattern(all_assignments', all_distances')
    /\ (pc = "rename_distances" /\ pc' = "loop") =>
          /\ "Data" \in DOMAIN fs'[assignments_fn].arrays
          /\ "Data" \in DOMAIN fs'[distances_fn].arrays
          /\ SamePattern(fs'[assignments_fn].arrays.Data,
                         fs'[distances_fn].arrays.Data)

C11_SameShapeAndPattern == [][StepKeepsPattern]_vars

\* C11 witness: a run has returned with its last checkpoint on disk, one row
\* padded with the sentinel and another filled to the end.
C11_Witness ==
    /\ pc = "returned"
    /\ mode \in Checkpointing
    /\ fs[assignments_fn] =
          CompleteFile(AssignmentsCheckpoint(all_assignments,
                                             completed_trajectories))
    /\ fs[distances_fn] = CompleteFile(DistancesCheckpoint(all_distances))
    /\ \E t \in Trajs : traj_lengths[t] < Longest /\ FullRowInMemory(t)
    /\ \E t \in Trajs : traj_lengths[t] = Longest /\ FullRowInMemory(t)

\* C12: within one checkpointed or streaming run the trajectories are
\* assigned in strictly increasing index order, none of them twice.
C12_IncreasingOrder ==
    InRun =>
        \A k \in 1 .. Len(hist.order) :
            \A l \in (k + 1) .. Len(hist.order) : hist.order[k] < hist.order[l]

\* C12 witness: a run has assigned two trajectories around one it skipped.
C12_Witness ==
    /\ InRun
    /\ Len(hist.order) = 2
    /\ hist.order[2] > hist.order[1] + 1
    /\ hist.start_completed[hist.order[1] + 1]

CheckpointedResult ==
    [assignments |->
        [t \in Trajs |->
            IF hist.start_completed[t] THEN hist.start_assignments[t]
            ELSE SetRow(hist.start_assignments, t,
                        Indices(CheckpointRow(t)))[t]],
     distances |->
        [t \in Trajs |->
            IF hist.start_completed[t] THEN hist.start_distances[t]
            ELSE SetRow(hist.start_distances, t, Dists(CheckpointRow(t)))[t]]]

StreamStepRefines ==
    (pc = "loop" /\ mode = "streaming" /\ pc' # "killed") =>
        /\ stream'.chunks > stream.chunks =>
              /\ all_assignments' = all_assignments
              /\ all_distances' = all_distances
              /\ completed_trajectories' = completed_trajectories
        /\ (\/ all_assignments' # all_assignments
            \/ all_distances' # all_distances
            \/ completed_trajectories' # completed_trajectories) =>
              /\ stream.chunks = Len(ChunksOf(i))
              /\ stream.row = CheckpointRow(i)
              /\ \A size \in 1 .. MaxChunk :
                    StreamingRow(i, size) = CheckpointRow(i)
              /\ all_assignments' =
                    SetRow(all_assignments, i, Indices(CheckpointRow(i)))
              /\ all_distances' =
                    SetRow(all_distances, i, Dists(CheckpointRow(i)))
              /\ completed_trajectories' =
                    MarkCompleted(completed_trajectories, i)

C15_StreamingEqualsCheckpointed == [][StreamStepRefines]_vars

\* C15 witness: a streaming run has read the first of the two chunks of a
\* trajectory; its row and its flag are still as they were.
C15_Witness ==
    /\ pc = "loop"
    /\ mode = "streaming"
    /\ i < NumTrajs
    /\ stream.chunks = 1
    /\ Len(ChunksOf(i)) = 2
    /\ ~completed_trajectories[i]
    /\ ~FullRowInMemory(i)
    /\ \E t \in Trajs : completed_trajectories[t]

\* The cutoff options given on the command line: -k, -d.
Cutoffs == Supplied(argv) \cap {"k", "d"}

\* C16: a kcenters or hybrid command line is accepted only with exactly one
\* of -k and -d; with neither or both it is rejected by the parser, before
\* any trajectory is loaded and before any clusterer is constructed.
C16_ExactlyOneCutoff ==
    (argv.alg \in {"kcenters", "hybrid"} /\ script_pc # "shell") =>
        /\ script_pc # "rejected" => Cardinality(Cutoffs) = 1
        /\ Cardinality(Cutoffs) # 1 =>
              /\ script_pc = "rejected"
              /\ args = None
              /\ trajs = <<>>
              /\ clusterer = None

\* C16 witness: a command line that is in order but for its cutoff, of which
\* it gives none, has been rejected.
C16_Witness ==
    /\ argv.alg \in {"kcenters", "hybrid"}
    /\ Supplied(argv) \subseteq Declared(argv.alg)
    /\ Cutoffs = {}
    /\ script_pc = "rejected"
    /\ trajs = <<>>

\* C17: a clarans or sclarans command line without -k is rejected by the
\* parser, before any clusterer is constructed.
C17_ClaransNeedsCount ==
    (argv.alg \in {"clarans", "sclarans"} /\ argv.k = None
        /\ script_pc # "shell")
    => script_pc = "rejected"

\* The trajectories recorded without an error, as positions in the lists.
ValidTrajs == {k \in 1 .. Len(project._traj_errors) :
                  project._traj_errors[k] = None}

\* The position in the lists of the k-th valid trajectory, counted from zero.
NthValid(k) ==
    CHOOSE j \in ValidTrajs : Cardinality({m \in ValidTrajs : m < j}) = k

\* The per-trajectory lists of the records all have the same length.
ListsAgree ==
    \A a \in PerTrajectory : \A b \in PerTrajectory :
        Len(records[a]) = Len(records[b])

\* C18: a Project of project/project.py counts only the trajectories recorded
\* without an error, and traj_filename(i) is the path of the i-th of them.
C18_ErrorsIgnored ==
    (/\ cls = "project/project.py"
     /\ raised = "none"
     /\ ListsAgree)
    => /\ n_trajs(cls, project) = Cardinality(ValidTrajs)
       /\ \A k \in 0 .. Cardinality(ValidTrajs) - 1 :
             traj_filename(cls, project, k) = project._traj_paths[NthValid(k)]

\* The exceptions of __init__ that are a ValueError.
ValueErrors == {"ValueError: attribute missing",
                "ValueError: conf does not exist",
                "ValueError: traj does not exist",
                "ValueError: lengths on disk",
                "ValueError: traj lengths mismatch"}

\* C19: constructing a Project of project/project.py from records that hold
\* every field, with per-trajectory lists of different lengths, raises
\* ValueError, with validate or without.
C19_UnequalListsRejected ==
    (/\ cls = "project/project.py"
     /\ raised # "pending"
     /\ PerTrajectory \subseteq DOMAIN records
     /\ ~ListsAgree)
    => raised \in ValueErrors

\* The attributes of the mapping that the records hold under no name.
MissingAttributes ==
    {attr \in DOMAIN mapping(cls) : Matches(cls, records, attr) = {}}

\* C20: constructing a Project, of any implementation, from records that
\* lack one field of the mapping raises ValueError ('attribute missing'),
\* and no object is made.
C20_MissingFieldRejected ==
    (raised # "pending" /\ Cardinality(MissingAttributes) = 1)
    => /\ raised = "ValueError: attribute missing"
       /\ project = None

\* The trajectories convert() has been through, as positions in the inputs.
Converted == 1 .. Len(builder.lists.traj_errors)

\* C21: a ValidationError raised by a validator does not stop convert(): the
\* trajectory has been saved, the loop goes on, only an exception of another
\* kind or an empty input ends the call without a project, and the project
\* built holds the error at the index of each trajectory in error and None
\* at the index of each trajectory that passed.
C21_ValidationErrorRecorded ==
    /\ \A k \in Converted :
          /\ builder.lists.traj_errors[k] = builder.inputs[k].verdict
          /\ \E f \in 1 .. Len(builder.saved) :
                builder.saved[f].path = lh5_fn(k - 1)
    /\ builder.pc = "raised" =>
          \/ builder.raised = "RuntimeError" /\ builder.inputs = <<>>
          \/ /\ builder.raised = "TypeError"
             /\ builder.inputs[builder.i + 1].verdict = "TypeError"
    /\ builder.pc = "built" =>
          /\ Len(builder.project._traj_errors) = Len(builder.inputs)
          /\ \A k \in 1 .. Len(builder.inputs) :
                /\ builder.project._traj_errors[k] = builder.inputs[k].verdict
                /\ builder.project._traj_paths[k] = lh5_fn(k - 1)

\* A project is built from three trajectories of which the first is in error
\* and the others passed.
C21_Witness ==
    /\ builder.pc = "built"
    /\ Len(builder.inputs) = 3
    /\ builder.inputs[1].verdict = "ExplosionError"
    /\ builder.inputs[2].verdict = None
    /\ builder.project._traj_errors = <<"ExplosionError", None, None>>
    /\ Len(builder.saved) = 3

\* The file the saveh call made is about.
SavedTarget ==
    IF io.saved.file.kind = "name"
    THEN Target(io.module, io.saved.file.path)
    ELSE io.saved.file.path

\* The names the saveh call made gives its arrays.
SavedNames == DOMAIN NameDict(io.saved.args, io.saved.kwargs)

\* saveh has been called with a name that was in the file already.
Overwriting ==
    /\ io.pc # "ready"
    /\ io.saved.file.kind \in {"name", "handle"}
    /\ \E name \in SavedNames : name \in DOMAIN io.before[SavedTarget].arrays

\* C22 as stated: saveh called with a name that already exists in the file
\* raises IOError and leaves every file as it was.
C22_OverwritingRaisesIOError ==
    Overwriting => io.saved.raised = "IOError" /\ io.files = io.before

\* C22, amended: saveh called with a name that already exists in the file
\* leaves every file as it was, and raises IOError unless an un-named array
\* comes with a keyword of its name 'arr_<i>': that call raises ValueError.
C22_OverwritingRejected ==
    Overwriting =>
        /\ io.files = io.before
        /\ io.saved.raised =
              IF NameClash(io.saved.args, io.saved.kwargs)
              THEN "ValueError" ELSE "IOError"

\* saveh(name, Data=b) on a file that holds 'Data' and 'arr_0' has raised
\* IOError.
C22_Witness ==
    /\ Overwriting
    /\ io.saved.file.kind = "name"
    /\ io.saved.args = <<>>
    /\ DOMAIN io.saved.kwargs = {"Data"}
    /\ DOMAIN io.before[SavedTarget].arrays = ArrayNames
    /\ io.saved.raised = "IOError"

\* loadh of io.py has been asked for a single name that the file, which can
\* be opened, does not hold.
FirstLoadMisses ==
    /\ io.module = "io.py"
    /\ io.first.file.kind \in {"name", "handle"}
    /\ Exists(io.files, io.first.file.path)
    /\ io.first.name \notin DOMAIN io.files[io.first.file.path].arrays

\* C23: loadh of io.py asked for a single name that is not stored in the
\* file raises KeyError, so that a caller who asked for 'arr_0' can catch it
\* and ask for 'Data', and is given the array stored under 'Data'.
C23_MissingNameIsKeyError ==
    /\ FirstLoadMisses => io.first.raised = "KeyError"
    /\ (FirstLoadMisses /\ io.pc = "loaded" /\ io.first.name = "arr_0")
          => ENABLED fall_back
    /\ (io.pc = "fellback" /\ io.module = "io.py") =>
          /\ io.first.name = "arr_0" /\ io.first.raised = "KeyError"
          /\ io.loaded.name = "Data"
          /\ "Data" \in DOMAIN io.files[io.loaded.file.path].arrays =>
                /\ io.loaded.raised = "none"
                /\ io.loaded.result =
                      io.files[io.loaded.file.path].arrays["Data"]

\* An array saved under 'Data' has been loaded by the fall back from 'arr_0'.
C23_Witness ==
    /\ io.pc = "fellback"
    /\ io.module = "io.py"
    /\ io.saved.raised = "none"
    /\ DOMAIN io.saved.kwargs = {"Data"}
    /\ io.first.raised = "KeyError"
    /\ io.loaded.result = "b"

\* saveh has failed while it stored its arrays.
StoreFailed == io.pc # "ready" /\ io.saved.raised = "TypeError"

\* C27: when saveh fails while it stores its arrays, every array that was in
\* the file before the call is still there, and none of the arrays of the
\* call has been added, for a file given by name or as an open handle.
C27_FailedSaveKeepsFile ==
    StoreFailed =>
        /\ \A name \in DOMAIN io.before[SavedTarget].arrays :
              /\ name \in DOMAIN io.files[SavedTarget].arrays
              /\ io.files[SavedTarget].arrays[name] =
                    io.before[SavedTarget].arrays[name]
        /\ \A name \in SavedNames :
              name \notin DOMAIN io.files[SavedTarget].arrays

\* saveh(path, Data=a) has returned for a path given as a string, and
\* loadh(path, 'Data') has been called with the same path.
SavedThenLoaded ==
    /\ io.pc = "loaded"
    /\ io.saved.file.kind = "name"
    /\ io.saved.raised = "none"
    /\ "Data" \in DOMAIN io.saved.kwargs
    /\ io.loaded.file = io.saved.file
    /\ io.loaded.name = "Data"

\* C28: after saveh(path, Data=a) has returned for a path given as a string,
\* a file exists at that very path, and loadh(path, 'Data') returns a.
C28_RoundTripSamePath ==
    SavedThenLoaded =>
        /\ Exists(io.files, io.saved.file.path)
        /\ io.loaded.raised = "none"
        /\ io.loaded.result = io.saved.kwargs["Data"]

RecordedNearest(t, j) ==
    LET d == one_to_all(prepare_trajectory(LoadTraj(t)),
                        prepare_trajectory(generators), j)
        ind == all_assignments[t][j]
    IN  /\ ind \in 0 .. Len(d) - 1
        /\ \A g \in 1 .. Len(d) : d[ind + 1] <= d[g]
        /\ \A g \in 1 .. ind : d[g] > d[ind + 1]
        /\ all_distances[t][j] = d[ind + 1]

\* C25: in every mode each frame of each trajectory the run has processed is
\* assigned a generator at minimum distance in one_to_all, the lowest index
\* among the nearest, and the distance recorded is the distance to it.
C25_NearestGeneratorRecorded ==
    \A k \in 1 .. Len(hist.order) :
        \A j \in 0 .. traj_lengths[hist.order[k]] - 1 :
            RecordedNearest(hist.order[k], j)

\* A run in each mode has recorded a frame that is as near to the second
\* generator as to the first, under the first.
C25_Witness ==
    /\ mode \in {"memory", "checkpoint", "streaming"}
    /\ Len(hist.order) > 0
    /\ \E j \in 0 .. traj_lengths[hist.order[1]] - 1 :
          LET d == one_to_all(prepare_trajectory(LoadTraj(hist.order[1])),
                              prepare_trajectory(generators), j)
          IN  /\ d[1] = d[2]
              /\ all_assignments[hist.order[1]][j] = 0

\* The paths a step of the script writes: the Z-matrix in cluster() for
\* hierarchical, the results at the end of main otherwise.
StepWrites ==
    IF script_pc = "loaded" /\ script_pc' = "clustered"
    THEN (IF args.alg = "hierarchical"
          THEN {args.hierarchical_save_zmatrix} ELSE {})
    ELSE IF script_pc = "clustered" /\ script_pc' = "done"
    THEN WrittenPaths(args)
    ELSE {}

\* No step writes a path that exists, and assignments and distances are
\* written only with stride 1 by an algorithm that is not hierarchical.
StepWritesNewPaths ==
    StepWrites # {} =>
        /\ StepWrites \cap disk = {}
        /\ StepWrites \cap {SavedAs(args.assignments),
                            SavedAs(args.distances)} # {}
              => args.stride = 1 /\ args.alg # "hierarchical"

\* C26: Cluster.main never writes to a path that existed when it started:
\* every path it writes was found absent by check_paths before any
\* trajectory was loaded; assignments and distances are written only with
\* stride 1 and an algorithm that is not hierarchical.
C26_NeverWritesExistingPath == [][StepWritesNewPaths]_vars

\* os.path.normpath(os.path.join(rootdir, path)) of a path written by save.
Resolved(rootdir, path) ==
    IF path[1] = "." THEN <<rootdir>> \o Tail(path) ELSE <<".">> \o Tail(path)

\* The project was saved and Project.load_from has read the written file.
SavedAndLoaded ==
    /\ reload.pc = "loaded"
    /\ endswith(reload.filename, "yaml")

\* C29: a Project written by save(filename) and read back by
\* Project.load_from on the written file is accepted and equals the
\* original: as many trajectories, the same lengths and errors, and the same
\* resolved trajectory file names.
C29_SavedProjectLoadsBack ==
    SavedAndLoaded =>
        /\ reload.raised = "none"
        /\ "_traj_errors" \in DOMAIN reload.loaded
        /\ Len(reload.loaded._traj_lengths) = Len(project._traj_lengths)
        /\ reload.loaded._traj_lengths = project._traj_lengths
        /\ reload.loaded._traj_errors = project._traj_errors
        /\ \A k \in 1 .. Len(project._traj_paths) :
              Resolved(reload.filename[1], reload.loaded._traj_paths[k])
                 = <<".">> \o project._traj_paths[k]

\* The trajectories flagged complete in the canonical assignments file.
FlaggedOnDisk ==
    {t \in DOMAIN StoredFlags(fs[assignments_fn], NumTrajs) :
        StoredFlags(fs[assignments_fn], NumTrajs)[t]}

\* C30: once a run has started from fresh containers, whatever runs, kills
\* and restarts follow and whatever their checkpoint intervals, the
\* trajectories flagged complete in the canonical assignments file are the
\* first m trajectories, for some m.
C30_FlaggedIsPrefix ==
    (hist.began_fresh /\ Exists(fs, assignments_fn)) =>
        \E m \in 0 .. NumTrajs : FlaggedOnDisk = 0 .. m - 1

\* C30 witness: after a kill and a restart, the canonical assignments file of
\* a job that began with fresh containers flags some trajectories and not
\* others.
C30_Witness ==
    /\ hist.began_fresh
    /\ hist.runs = 2
    /\ hist.interrupted
    /\ Exists(fs, assignments_fn)
    /\ FlaggedOnDisk # {}
    /\ FlaggedOnDisk # Trajs

====
